---- MODULE Spec2Model ----
(***************************************************************************)
(* WorkBot: the work-scheduling state machine of wtsi-npg/workbot.         *)
(*                                                                         *)
(* The job store is the sequence `jobs` of WorkInstance rows (the row id   *)
(* is the index) and the set `ontmeta` of ONTMeta rows; `staging` is the   *)
(* set of work instances whose local staging directory exists.  Every      *)
(* operation of a WorkBot (add_work, the six decorated step operations,    *)
(* cancel_analysis, run), a broker's request_work and every direct call of *)
(* a WorkInstance transition method is one action.  `last` records the     *)
(* most recent call: what it was applied to, its inputs, the states it     *)
(* wrote, the step bodies it invoked, the exception it raised and what it  *)
(* returned.                                                               *)
(*                                                                         *)
(* `sessions` is the place each process has reached in a call of add_work  *)
(* on the shared database.  Of the archive, `proc` is the baton-do process *)
(* of a BatonClient, `metadata` the set of tags of one item and `rods` the *)
(* most recent call on the client or the item; `avus` is a list of tags    *)
(* and its sorted form, `annotation` the warehouse rows of a run and the   *)
(* tags of its collections, `scratch` the staging directory of one work    *)
(* instance under the stage step.  `engines` is the place each process has *)
(* reached in a pass of run() over the first work instance and the state   *)
(* of it that the session of the process holds; `history` counts the       *)
(* invocations of the analysis body on each work instance where they are   *)
(* recorded.                                                               *)
(***************************************************************************)
EXTENDS Integers, Sequences, FiniteSets

VARIABLES jobs, ontmeta, staging, last, sessions, proc, metadata, rods, avus,
          annotation, scratch, engines, history

vars == <<jobs, ontmeta, staging, last, sessions, proc, metadata, rods, avus,
          annotation, scratch, engines, history>>

\* The database and the staging area with the record of the last call, the
\* processes at work on them and the count of the analyses.
workbot == <<jobs, ontmeta, staging, last, sessions, engines, history>>

\* The archive: the baton client, the tags of an item, the last call, the
\* list under sorting and the collections of a run under annotation.
irods == <<proc, metadata, rods, avus, annotation>>

\* What the operations of one work bot in one process leave alone.
elsewhere == <<sessions, irods, scratch, engines>>

(***************************************************************************)
(* Bounds of the model.                                                    *)
(***************************************************************************)
MaxJobs == 2

Paths == {"p1"}

\* The (experiment name, instrument slot) tuples of the warehouse.
Expts == {"e1", "e2"}

(***************************************************************************)
(* enums.py: the work types and the work states.                           *)
(***************************************************************************)
ONTRunData == "ARTICNextflow"

ONTRunMetadataUpdate == "ONTRunMetadataUpdate"

WorkType == {ONTRunData, ONTRunMetadataUpdate}

PENDING == "PENDING"

STAGED == "STAGED"

STARTED == "STARTED"

SUCCEEDED == "SUCCEEDED"

ARCHIVED == "ARCHIVED"

ANNOTATED == "ANNOTATED"

UNSTAGED == "UNSTAGED"

COMPLETED == "COMPLETED"

FAILED == "FAILED"

CANCELLED == "CANCELLED"

WorkState == {PENDING, STAGED, STARTED, SUCCEEDED, ARCHIVED, ANNOTATED,
              UNSTAGED, COMPLETED, FAILED, CANCELLED}

(***************************************************************************)
(* schema.py: WorkInstance state transitions.  A transition method applied *)
(* to the current state yields the new state and the row it wrote, or      *)
(* raises StateTransitionError and writes nothing.                         *)
(***************************************************************************)
StateTransitionError(current) ==
    [state |-> current, err |-> "StateTransitionError", written |-> <<>>]

update_state(name) ==
    [state |-> name, err |-> "none", written |-> <<name>>]

staged(current) ==
    IF current # PENDING
    THEN StateTransitionError(current)
    ELSE update_state(STAGED)

started(current) ==
    IF current # STAGED
    THEN StateTransitionError(current)
    ELSE update_state(STARTED)

succeeded(current) ==
    IF current # STARTED
    THEN StateTransitionError(current)
    ELSE update_state(SUCCEEDED)

\* failed() recording the state name of another method.
failed_as_unstaged(current) ==
    IF current # STARTED
    THEN StateTransitionError(current)
    ELSE update_state(UNSTAGED)

failed(current) ==
    IF current # STARTED
    THEN StateTransitionError(current)
    ELSE update_state(FAILED)

cancelled(current) ==
    update_state(CANCELLED)

\* unstaged() without its guard.
unstaged_unguarded(current) ==
    update_state(UNSTAGED)

unstaged(current) ==
    IF current \notin {STAGED, "FAILED_STAGING", SUCCEEDED, FAILED,
                       "FAILED_UNSTAGING"}
    THEN StateTransitionError(current)
    ELSE update_state(UNSTAGED)

completed(current) ==
    IF current # UNSTAGED
    THEN StateTransitionError(current)
    ELSE update_state(COMPLETED)

archived(current) ==
    IF current # SUCCEEDED
    THEN StateTransitionError(current)
    ELSE update_state(ARCHIVED)

annotated(current) ==
    IF current # ARCHIVED
    THEN StateTransitionError(current)
    ELSE update_state(ANNOTATED)

is_pending(current) == current = PENDING

is_staged(current) == current = STAGED

is_succeeded(current) == current = SUCCEEDED

is_archived(current) == current = ARCHIVED

is_annotated(current) == current = ANNOTATED

is_unstaged(current) == current = UNSTAGED

Methods == {"staged", "started", "succeeded", "failed", "cancelled",
            "unstaged", "completed", "archived", "annotated"}

\* The state a transition method moves a work instance to.
Target(m) ==
    CASE m = "staged" -> STAGED
      [] m = "started" -> STARTED
      [] m = "succeeded" -> SUCCEEDED
      [] m = "failed" -> FAILED
      [] m = "cancelled" -> CANCELLED
      [] m = "unstaged" -> UNSTAGED
      [] m = "completed" -> COMPLETED
      [] m = "archived" -> ARCHIVED
      [] m = "annotated" -> ANNOTATED

\* wi.<m>(session)
Transition(m, current) ==
    CASE m = "staged" -> staged(current)
      [] m = "started" -> started(current)
      [] m = "succeeded" -> succeeded(current)
      [] m = "failed" -> failed(current)
      [] m = "cancelled" -> cancelled(current)
      [] m = "unstaged" -> unstaged(current)
      [] m = "completed" -> completed(current)
      [] m = "archived" -> archived(current)
      [] m = "annotated" -> annotated(current)

(***************************************************************************)
(* base.py: the decorators.  A decorated step applied to the current state *)
(* with the outcome of its body ("ok" or the exception the body raises)    *)
(* yields the new state, the exception that escapes, the states written    *)
(* and the bodies invoked.                                                 *)
(***************************************************************************)
Steps == {"stage", "analyse", "archive", "annotate", "unstage", "complete"}

Outcomes == {"ok", "AnalysisError", "Error"}

\* The precondition was not met: the decorator returns None.
Skipped(current) ==
    [state |-> current, err |-> "none", written |-> <<>>, bodies |-> <<>>,
     raised |-> "none"]

\* method(...) raised: the exception escapes before any transition.
BodyRaised(current, step, exc) ==
    [state |-> current, err |-> exc, written |-> <<>>, bodies |-> <<step>>,
     raised |-> exc]

\* method(...) returned: the transition t follows and is committed.
BodyThen(step, t) ==
    [state |-> t.state, err |-> t.err, written |-> t.written,
     bodies |-> <<step>>, raised |-> "none"]

\* stage_op recording the transition before the body runs, as analyse_op
\* does.
stage_op_commit_first(current, body) ==
    IF is_pending(current)
    THEN LET t == staged(current)
         IN  [state |-> t.state, err |-> IF body # "ok" THEN body ELSE t.err,
              written |-> t.written, bodies |-> <<"stage">>,
              raised |-> IF body # "ok" THEN body ELSE "none"]
    ELSE Skipped(current)

stage_op(current, body) ==
    IF is_pending(current)
    THEN IF body # "ok"
         THEN BodyRaised(current, "stage", body)
         ELSE BodyThen("stage", staged(current))
    ELSE Skipped(current)

\* analyse_op that records FAILED and does not raise the AnalysisError
\* again.
analyse_op_swallowing(current, body) ==
    IF is_staged(current)
    THEN LET s1 == started(current)
             s2 == IF body = "ok" THEN succeeded(s1.state)
                   ELSE failed(s1.state)
         IN  [state |-> s2.state, err |-> "none",
              written |-> s1.written \o s2.written,
              bodies |-> <<"analyse">>,
              raised |-> IF body = "ok" THEN "none" ELSE body]
    ELSE Skipped(current)

\* analyse_op that invokes the body and neither records STARTED nor the
\* outcome.
analyse_op_uncommitted(current, body) ==
    IF is_staged(current)
    THEN [state |-> current, err |-> "none", written |-> <<>>,
          bodies |-> <<"analyse">>, raised |-> "none"]
    ELSE Skipped(current)

analyse_op(current, body) ==
    IF is_staged(current)
    THEN LET s1 == started(current)
         IN  IF s1.err # "none"
             THEN [state |-> s1.state, err |-> s1.err, written |-> <<>>,
                   bodies |-> <<>>, raised |-> "none"]
             ELSE IF body = "ok"
                  THEN LET s2 == succeeded(s1.state)
                       IN  [state |-> s2.state, err |-> s2.err,
                            written |-> s1.written \o s2.written,
                            bodies |-> <<"analyse">>, raised |-> "none"]
                  ELSE IF body = "AnalysisError"
                       THEN LET s2 == failed(s1.state)
                            IN  [state |-> s2.state,
                                 err |-> IF s2.err # "none" THEN s2.err
                                                            ELSE body,
                                 written |-> s1.written \o s2.written,
                                 bodies |-> <<"analyse">>, raised |-> body]
                       ELSE [state |-> s1.state, err |-> body,
                             written |-> s1.written,
                             bodies |-> <<"analyse">>, raised |-> body]
    ELSE Skipped(current)

\* archive_op without the test of the state.
archive_op_unguarded(current, body) ==
    IF body # "ok"
    THEN BodyRaised(current, "archive", body)
    ELSE BodyThen("archive", archived(current))

archive_op(current, body) ==
    IF is_succeeded(current)
    THEN IF body # "ok"
         THEN BodyRaised(current, "archive", body)
         ELSE BodyThen("archive", archived(current))
    ELSE Skipped(current)

annotate_op(current, body) ==
    IF is_archived(current)
    THEN IF body # "ok"
         THEN BodyRaised(current, "annotate", body)
         ELSE BodyThen("annotate", annotated(current))
    ELSE Skipped(current)

\* unstage_op that unstages a work instance whose analysis failed as well.
unstage_op_after_failure(current, body) ==
    IF is_annotated(current) \/ current = FAILED
    THEN IF body # "ok"
         THEN BodyRaised(current, "unstage", body)
         ELSE BodyThen("unstage", unstaged(current))
    ELSE Skipped(current)

unstage_op(current, body) ==
    IF is_annotated(current)
    THEN IF body # "ok"
         THEN BodyRaised(current, "unstage", body)
         ELSE BodyThen("unstage", unstaged(current))
    ELSE Skipped(current)

complete_op(current, body) ==
    IF is_unstaged(current)
    THEN IF body # "ok"
         THEN BodyRaised(current, "complete", body)
         ELSE BodyThen("complete", completed(current))
    ELSE Skipped(current)

\* A pass that ends after the first step whose body ran.
AndThen_one_step(r, r2) ==
    IF r.err # "none" \/ r.bodies # <<>>
    THEN r
    ELSE r2

\* r, and after it r2 unless r raised.
AndThen(r, r2) ==
    IF r.err # "none"
    THEN r
    ELSE [state |-> r2.state, err |-> r2.err,
          written |-> r.written \o r2.written,
          bodies |-> r.bodies \o r2.bodies, raised |-> r2.raised]

\* WorkBot.cancel_analysis, decorated by cancel_op: the body unstages a
\* staged or annotated work instance through the decorated
\* unstage_input_data, then the decorator calls wi.cancelled.
cancel_op(current, body) ==
    LET m == IF is_staged(current) \/ is_annotated(current)
             THEN unstage_op(current, body)
             ELSE Skipped(current)
    IN  IF m.err # "none"
        THEN m
        ELSE LET c == cancelled(m.state)
             IN  [state |-> c.state, err |-> c.err,
                  written |-> m.written \o c.written, bodies |-> m.bodies,
                  raised |-> m.raised]

\* WorkBot.run: the six steps in order; an exception ends the pass.
\* pass[k] is the result of the first k steps.
run(current, o) ==
    LET pass[k \in 0..6] ==
          IF k = 0
          THEN Skipped(current)
          ELSE LET r == pass[k - 1]
               IN  CASE k = 1 ->
                          AndThen(r, stage_op(r.state, o["stage"]))
                     [] k = 2 ->
                          AndThen(r, analyse_op(r.state, o["analyse"]))
                     [] k = 3 ->
                          AndThen(r, archive_op(r.state, o["archive"]))
                     [] k = 4 ->
                          AndThen(r, annotate_op(r.state, o["annotate"]))
                     [] k = 5 ->
                          AndThen(r, unstage_op(r.state, o["unstage"]))
                     [] k = 6 ->
                          AndThen(r, complete_op(r.state, o["complete"]))
    IN  pass[6]

(***************************************************************************)
(* The step bodies of the two registered ONT work bots and what they can   *)
(* raise.                                                                  *)
(***************************************************************************)
BodyOutcomes(work_type, step) ==
    IF work_type = ONTRunMetadataUpdate
    THEN IF step = "annotate" THEN {"ok", "Error"} ELSE {"ok"}
    ELSE CASE step = "stage" -> {"ok", "Error"}
           [] step = "analyse" -> {"ok", "AnalysisError", "Error"}
           [] step = "archive" -> {"ok", "Error"}
           [] step = "annotate" -> {"ok", "Error"}
           [] step = "unstage" -> {"ok"}
           [] step = "complete" -> {"ok"}

RunOutcomes(work_type) ==
    [stage : BodyOutcomes(work_type, "stage"),
     analyse : BodyOutcomes(work_type, "analyse"),
     archive : BodyOutcomes(work_type, "archive"),
     annotate : BodyOutcomes(work_type, "annotate"),
     unstage : BodyOutcomes(work_type, "unstage"),
     complete : BodyOutcomes(work_type, "complete")]

(***************************************************************************)
(* base.py: WorkBot.end_states, find_work and add_work.                    *)
(***************************************************************************)
\* Every work bot with the end-state CANCELLED alone.
end_states_cancelled_only(work_type) ==
    {CANCELLED}

\* Every work bot with the default end-states.
end_states_default(work_type) ==
    {CANCELLED, COMPLETED}

end_states(work_type) ==
    IF work_type = ONTRunMetadataUpdate
    THEN {CANCELLED}
    ELSE {CANCELLED, COMPLETED}

\* find_work without the filter on the work type.
find_work_any_type(js, work_type, input_path, states, not_states) ==
    {i \in 1..Len(js) :
        /\ js[i].input_path = input_path
        /\ (states # {} => js[i].state \in states)
        /\ (not_states # {} => js[i].state \notin not_states)}

\* The ids of the rows the query returns; an empty filter is not applied.
find_work(js, work_type, input_path, states, not_states) ==
    {i \in 1..Len(js) :
        /\ js[i].input_path = input_path
        /\ js[i].work_type = work_type
        /\ (states # {} => js[i].state \in states)
        /\ (not_states # {} => js[i].state \notin not_states)}

\* add_work without the search for incomplete work.
add_work_unchecked(js, work_type, input_path) ==
    IF find_work(js, work_type, input_path, end_states(work_type), {}) # {}
    THEN "raise"
    ELSE "insert"

\* add_work raising for incomplete work, as for ended work.
add_work_raising(js, work_type, input_path) ==
    IF find_work(js, work_type, input_path, {}, {CANCELLED, COMPLETED}) # {}
    THEN "raise"
    ELSE "insert"

\* add_work that does not count FAILED work as incomplete.
add_work_ignoring_failed(js, work_type, input_path) ==
    LET ended == find_work(js, work_type, input_path,
                           end_states(work_type), {})
        incomplete == find_work(js, work_type, input_path, {},
                                end_states(work_type)
                                    \cup {CANCELLED, COMPLETED, FAILED})
    IN  IF ended # {} THEN "raise"
        ELSE IF incomplete # {} THEN "none"
        ELSE "insert"

\* What add_work does on the store js: "raise", "none" or "insert".
add_work(js, work_type, input_path) ==
    LET ended == find_work(js, work_type, input_path,
                           end_states(work_type), {})
        incomplete == find_work(js, work_type, input_path, {},
                                end_states(work_type)
                                    \cup {CANCELLED, COMPLETED})
    IN  IF ended # {} THEN "raise"
        ELSE IF incomplete # {} THEN "none"
        ELSE "insert"

WorkInstance(input_path, work_type, state) ==
    [input_path |-> input_path, work_type |-> work_type, state |-> state]

(***************************************************************************)
(* ont.py: ONTWorkBroker.  expos is the list of (experiment, slot) tuples  *)
(* the warehouse query returns and found[e] the list of collections the    *)
(* metadata query returns for the tuple e.  A pass is the record of the    *)
(* rows of the database, the number of work instances added and the        *)
(* exception that ended it.                                                *)
(***************************************************************************)
\* The loop body that counts a path whether or not add_work returned a
\* work instance.
add_work_for_path_counting_all(acc, work_type, expt, path) ==
    LET what == add_work(acc.jobs, work_type, path)
    IN  IF what = "raise"
        THEN [acc EXCEPT !.err = "AnalysisError"]
        ELSE IF what = "none"
             THEN [acc EXCEPT !.num_added = acc.num_added + 1]
             ELSE [jobs |-> Append(acc.jobs,
                                   WorkInstance(path, work_type, PENDING)),
                   ontmeta |-> acc.ontmeta \cup {<<Len(acc.jobs) + 1, expt>>},
                   num_added |-> acc.num_added + 1,
                   err |-> "none"]

\* One iteration of the loop over the collections found for a tuple:
\* add_work, and for a new work instance add_metadata and the count.
add_work_for_path(acc, work_type, expt, path) ==
    LET what == add_work(acc.jobs, work_type, path)
    IN  IF what = "raise"
        THEN [acc EXCEPT !.err = "AnalysisError"]
        ELSE IF what = "none"
             THEN acc
             ELSE [jobs |-> Append(acc.jobs,
                                   WorkInstance(path, work_type, PENDING)),
                   ontmeta |-> acc.ontmeta \cup {<<Len(acc.jobs) + 1, expt>>},
                   num_added |-> acc.num_added + 1,
                   err |-> "none"]

RECURSIVE add_work_for_run(_, _, _, _)

\* __add_work_for_run: every collection found for the tuple, in order; an
\* exception of add_work ends the pass.
add_work_for_run(acc, work_type, expt, found) ==
    IF found = <<>> \/ acc.err # "none"
    THEN acc
    ELSE add_work_for_run(add_work_for_path(acc, work_type, expt,
                                            Head(found)),
                          work_type, expt, Tail(found))

RECURSIVE add_work_for_runs(_, _, _, _)

\* __add_work_for_runs: every tuple, in order.
add_work_for_runs(acc, work_type, expos, found) ==
    IF expos = <<>> \/ acc.err # "none"
    THEN acc
    ELSE add_work_for_runs(add_work_for_run(acc, work_type, Head(expos),
                                            found[Head(expos)]),
                           work_type, Tail(expos), found)

\* request_work on the rows js, meta.
request_work(js, meta, work_type, expos, found) ==
    add_work_for_runs([jobs |-> js, ontmeta |-> meta, num_added |-> 0,
                       err |-> "none"],
                      work_type, expos, found)

\* The rows a pass with result r has committed when it is interrupted in
\* the loop of __add_work_for_run after n work instances and their ONTMeta
\* rows, between the commit of add_work for the next work instance and the
\* commit of add_metadata for it.
interrupted(js, r, n) ==
    [jobs |-> SubSeq(r.jobs, 1, Len(js) + n + 1),
     ontmeta |-> {row \in r.ontmeta : row[1] <= Len(js) + n},
     num_added |-> n,
     err |-> "Interrupted"]

\* What the warehouse query can return: the tuples are distinct and in
\* ascending order.
ExperimentSlots == {<<>>, <<"e1">>, <<"e2">>, <<"e1", "e2">>}

\* What the metadata query can return for a tuple.
FoundLists == {<<>>} \cup {<<p>> : p \in Paths}

NothingFound == [e \in Expts |-> <<>>]

(***************************************************************************)
(* The local staging directory of a work instance.                         *)
(***************************************************************************)
RECURSIVE StagingAfter(_, _, _, _, _)

\* Whether the staging directory exists after the bodies r.bodies[i..] of
\* a run-data work bot have run, given whether it existed before: the set
\* of the possible outcomes.  stage_input_data creates it when the input
\* data are complete, run_analysis creates it with the output directory
\* (a body that raised may have raised before that), unstage_input_data
\* removes it.
StagingAfter(r, i, complete, dir, work_type) ==
    IF work_type # ONTRunData \/ i > Len(r.bodies)
    THEN {dir}
    ELSE LET step == r.bodies[i]
             raised == i = Len(r.bodies) /\ r.raised # "none"
         IN  CASE step = "stage" ->
                    StagingAfter(r, i + 1, complete, dir \/ complete,
                                 work_type)
               [] step = "analyse" ->
                    IF raised
                    THEN {dir, TRUE}
                    ELSE StagingAfter(r, i + 1, complete, TRUE, work_type)
               [] step = "unstage" ->
                    StagingAfter(r, i + 1, complete, FALSE, work_type)
               [] OTHER ->
                    StagingAfter(r, i + 1, complete, dir, work_type)

\* What is_input_data_complete can answer when the stage body of the work
\* instance j runs: the ONT run-data work bot looks for the final report,
\* the metadata-update work bot does not ask.
CompleteInputs(work_type, current) ==
    IF work_type = ONTRunData /\ is_pending(current)
    THEN {TRUE, FALSE}
    ELSE {TRUE}

(***************************************************************************)
(* irods.py: AVU.  A string is modelled by its rank in the lexical order   *)
(* of the strings in use (1 < 2 < ...), so that `<` on ranks is `<` on the *)
(* strings; None is a value apart from every string.  A tag is the record  *)
(* of its namespace, attribute (without namespace), value and units; the   *)
(* namespace and the units may be None.  Two tags are equal (AVU.__eq__)   *)
(* when their records are.                                                 *)
(***************************************************************************)
None == 0

Namespaces == {None, 1, 2}

Attributes == {1, 2}

Values == {1, 2}

Units == {None, 1, 2}

AVU(attribute, value, units, namespace) ==
    [namespace |-> namespace, attribute |-> attribute, value |-> value,
     units |-> units]

AVUs ==
    {AVU(a, v, u, ns) :
        a \in Attributes, v \in Values, u \in Units, ns \in Namespaces}

\* The rank of the string "namespace:attribute" among the attribute
\* strings: behind every attribute that holds no separator, by namespace
\* and then by attribute.
qualified(namespace, attr) ==
    namespace * (Cardinality(Attributes) + 1) + attr

\* The tags without a namespace whose attribute holds the separator: the
\* constructor rejects a separator in the namespace only.
QualifiedAVUs ==
    {AVU(qualified(ns, a), v, u, None) :
        ns \in Namespaces \ {None}, a \in Attributes, v \in Values,
        u \in Units}

\* AVU.attribute: the attribute with its namespace, "namespace:attribute",
\* or the bare attribute when the tag has no namespace.
attribute(avu) ==
    IF avu.namespace # None
    THEN qualified(avu.namespace, avu.attribute)
    ELSE avu.attribute

\* AVU.__eq__.
eq(self, other) ==
    /\ attribute(self) = attribute(other)
    /\ self.value = other.value
    /\ self.units = other.units

\* self.attribute < other.attribute for two tags of one namespace: the
\* prefix "namespace:" is the same, the bare attributes decide.
attribute_lt(self, other) == self.attribute < other.attribute

\* AVU.__lt__ with a tag that has no namespace (no units) before a tag that
\* has one.
lt_nulls_first(self, other) ==
    IF self.namespace # other.namespace
    THEN self.namespace < other.namespace
    ELSE IF self.attribute # other.attribute
    THEN self.attribute < other.attribute
    ELSE IF self.value # other.value
    THEN self.value < other.value
    ELSE self.units < other.units

\* AVU.__lt__.
lt(self, other) ==
    IF self.namespace # None /\ other.namespace = None THEN TRUE
    ELSE IF self.namespace = None /\ other.namespace # None THEN FALSE
    ELSE IF /\ self.namespace # None /\ other.namespace # None
            /\ self.namespace < other.namespace
    THEN TRUE
    ELSE IF self.namespace = other.namespace
    THEN IF attribute_lt(self, other) THEN TRUE
         ELSE IF attribute(self) = attribute(other)
         THEN IF self.value < other.value THEN TRUE
              ELSE IF self.value = other.value
              THEN IF self.units # None /\ other.units = None THEN TRUE
                   ELSE IF self.units = None /\ other.units # None THEN FALSE
                   ELSE IF self.units = None /\ other.units = None
                   THEN FALSE
                   ELSE self.units < other.units
              ELSE FALSE
         ELSE FALSE
    ELSE FALSE

\* The sorted list l with x put in, after the elements that x is not less
\* than.
RECURSIVE insort(_, _)
insort(l, x) ==
    IF l = <<>> THEN <<x>>
    ELSE IF lt(x, Head(l)) THEN <<x>> \o l
    ELSE <<Head(l)>> \o insort(Tail(l), x)

\* sorted(l) and l.sort(): the stable sort of a list by `<`.
RECURSIVE sorted(_)
sorted(l) ==
    IF l = <<>> THEN <<>>
    ELSE insort(sorted(SubSeq(l, 1, Len(l) - 1)), l[Len(l)])

(***************************************************************************)
(* irods.py: BatonClient.  proc is TRUE when the client holds a baton-do   *)
(* process that has not exited; baton-do starts when it is launched and    *)
(* runs until it is stopped.  A client c is the record of proc and of the  *)
(* log of what it did during a call: "start", "stop" and the requests it   *)
(* sent to baton-do.                                                       *)
(***************************************************************************)
is_running(c) == c.proc

start(c) ==
    IF is_running(c)
    THEN c
    ELSE [proc |-> TRUE, log |-> Append(c.log, "start")]

stop(c) ==
    IF ~is_running(c)
    THEN c
    ELSE [proc |-> FALSE, log |-> Append(c.log, "stop")]

\* _execute sending the request whether or not the client is running.
execute_without_start(c, request) ==
    [c EXCEPT !.log = Append(c.log, request)]

\* _execute: the request is sent by a running client.
execute(c, request) ==
    LET c1 == IF ~is_running(c) THEN start(c) ELSE c
    IN  [c1 EXCEPT !.log = Append(c1.log, request)]

(***************************************************************************)
(* irods.py: RodsItem.  current is the set of tags of the item in the      *)
(* archive, avus the set of argument tags.  The result of a method is the  *)
(* record of the client afterwards, the tags of the item afterwards and    *)
(* the returned value.                                                     *)
(***************************************************************************)
Result(c, current, ret) ==
    [proc |-> c.proc, log |-> c.log, metadata |-> current, ret |-> ret]

\* RodsItem.exists and list: one list request.
list(c, current) ==
    Result(execute(c, "list"), current, <<>>)

\* The error code of the archive for a path that does not exist.
USER_FILE_DOES_NOT_EXIST == -310000

\* An error code of the archive for a path that may exist: no permission.
CAT_NO_ACCESS_PERMISSION == -818000

\* The list request was answered with a result.
Listed == [err |-> "none", code |-> 0]

\* What a list request can come to: a result, an error of the archive with
\* its code (RodsError), or an answer the client cannot read (BatonError).
ListAnswers ==
    {Listed}
        \cup [err : {"RodsError"},
              code : {USER_FILE_DOES_NOT_EXIST, CAT_NO_ACCESS_PERMISSION}]
        \cup [err : {"BatonError"}, code : {-1}]

\* RodsItem.exists when the list request comes to `answer`: the returned
\* value, or the exception that escapes.
exists(c, current, answer) ==
    LET l == list(c, current)
        returned(b) ==
            [proc |-> l.proc, log |-> l.log, metadata |-> current,
             ret |-> <<b>>, err |-> "none"]
    IN  CASE answer.err = "none" -> returned(TRUE)
          [] answer.err = "RodsError" ->
               IF answer.code = USER_FILE_DOES_NOT_EXIST
               THEN returned(FALSE)
               ELSE returned(TRUE)
          [] OTHER ->
               [proc |-> l.proc, log |-> l.log, metadata |-> current,
                ret |-> <<>>, err |-> answer.err]

\* meta_add returning the number of argument tags.
meta_add_counting_all(c, current, avus_) ==
    LET c1 == execute(c, "list")
        to_add == avus_ \ current
    IN  IF to_add # {}
        THEN Result(execute(c1, "metamod add"), current \cup to_add,
                    <<Cardinality(avus_)>>)
        ELSE Result(c1, current, <<Cardinality(avus_)>>)

meta_add(c, current, avus_) ==
    LET c1 == execute(c, "list")
        to_add == avus_ \ current
    IN  IF to_add # {}
        THEN Result(execute(c1, "metamod add"), current \cup to_add,
                    <<Cardinality(to_add)>>)
        ELSE Result(c1, current, <<Cardinality(to_add)>>)

\* meta_remove returning the number of argument tags.
meta_remove_counting_all(c, current, avus_) ==
    LET c1 == execute(c, "list")
        to_remove == current \cap avus_
    IN  IF to_remove # {}
        THEN Result(execute(c1, "metamod rem"), current \ to_remove,
                    <<Cardinality(avus_)>>)
        ELSE Result(c1, current, <<Cardinality(avus_)>>)

meta_remove(c, current, avus_) ==
    LET c1 == execute(c, "list")
        to_remove == current \cap avus_
    IN  IF to_remove # {}
        THEN Result(execute(c1, "metamod rem"), current \ to_remove,
                    <<Cardinality(to_remove)>>)
        ELSE Result(c1, current, <<Cardinality(to_remove)>>)

\* meta_supersede that removes the argument tags it finds as well, and adds
\* them back.
meta_supersede_readding(c, current, avus_) ==
    LET c1 == execute(c, "list")
        rem_attrs == {attribute(avu) : avu \in avus_}
        to_remove == {a \in current : attribute(a) \in rem_attrs}
        c2 == IF to_remove # {} THEN execute(c1, "metamod rem") ELSE c1
        to_add == avus_
        c3 == IF to_add # {} THEN execute(c2, "metamod add") ELSE c2
    IN  Result(c3, (current \ to_remove) \cup to_add,
               <<Cardinality(to_remove), Cardinality(to_add)>>)

\* meta_supersede with history=False.
meta_supersede(c, current, avus_) ==
    LET c1 == execute(c, "list")
        rem_attrs == {attribute(avu) : avu \in avus_}
        to_remove == {a \in current : attribute(a) \in rem_attrs} \ avus_
        c2 == IF to_remove # {} THEN execute(c1, "metamod rem") ELSE c1
        to_add == avus_ \ current
        c3 == IF to_add # {} THEN execute(c2, "metamod add") ELSE c2
    IN  Result(c3, (current \ to_remove) \cup to_add,
               <<Cardinality(to_remove), Cardinality(to_add)>>)

\* The tags the item methods are called with: two attributes, two values,
\* one tag with units and one with a namespace.
ItemAVUs ==
    {AVU(1, 1, None, None), AVU(1, 2, None, None), AVU(2, 1, None, None),
     AVU(1, 1, 1, None), AVU(1, 1, None, 1)}

\* The argument lists of a call, as sets.
MaxArgs == 2

Arguments == {T \in SUBSET ItemAVUs : Cardinality(T) \in 1..MaxArgs}

NoRodsCall ==
    [op |-> "init", avus |-> {}, ret |-> <<>>, log |-> <<>>, was |-> FALSE,
     err |-> "none", answer |-> Listed]

\* The lists of tags to sort.
MaxLen == 2

Lists == UNION {[1..n -> AVUs] : n \in 0..MaxLen}

NoSort == [list |-> <<>>, ret |-> <<>>, done |-> FALSE]

(***************************************************************************)
(* ont.py: ONTRunMetadataWorkBot.annotate_output_data, the body of the     *)
(* annotate step.  plex_info is the list of warehouse rows of the run's    *)
(* (experiment, slot), each with its tag index (None for a run that is not *)
(* multiplexed), sample and study; colls gives the tags of the run's       *)
(* top-level collection `top` and of its barcode sub-collections.  A tag   *)
(* is the record of its attribute and value.                               *)
(***************************************************************************)
Tag(attr, value) == [attribute |-> attr, value |-> value]

TagIndexes == {None, 1, 2}

Samples == {1, 2}

Studies == {1, 2}

\* The rows find_ont_plex_info returns.
PlexRows == [tag_index : TagIndexes, sample : Samples, study : Studies]

MaxRows == 2

PlexInfos == UNION {[1..n -> PlexRows] : n \in 0..MaxRows}

\* The collection at wi.input_path.
top == <<"top", None>>

\* The sub-collection barcodeNN of the tag index NN.
barcode(tag_index) == <<"barcode", tag_index>>

Collections == {top} \cup {barcode(t) : t \in TagIndexes \ {None}}

make_sample_metadata(sample) == {Tag("sample", sample)}

make_study_metadata(study) ==
    {Tag("study_id", study), Tag("study", study)}

\* The tags of the work instance's ONTMeta row.
ont_metadata == {Tag("ont:experiment_name", 1), Tag("ont:instrument_slot", 1)}

\* The loop over plex_info: the rows from i on.
RECURSIVE annotate_rows(_, _, _)
annotate_rows(colls, plex_info, i) ==
    IF i > Len(plex_info) THEN colls
    ELSE LET fc == plex_info[i]
             p == barcode(fc.tag_index)
         IN  IF fc.tag_index # None
             THEN annotate_rows(
                      [colls EXCEPT ![p] =
                          @ \cup {Tag("tag_index", fc.tag_index)}
                            \cup make_study_metadata(fc.study)
                            \cup make_sample_metadata(fc.sample)],
                      plex_info, i + 1)
             ELSE annotate_rows(colls, plex_info, i + 1)

annotate_output_data(colls, plex_info) ==
    annotate_rows([colls EXCEPT ![top] = @ \cup ont_metadata],
                  plex_info, 1)

NoAnnotation ==
    [plex_info |-> <<>>, colls |-> [c \in Collections |-> {}],
     done |-> FALSE]

(***************************************************************************)
(* base.py: the body of stage_input_data on the local file system.  A path *)
(* is the sequence of its names below staging_path(wi); fs is the set of   *)
(* the paths that exist there, directories and files alike.  The archive   *)
(* collection at wi.input_path has the leaf name `leaf` and the children   *)
(* `contents`.                                                             *)
(***************************************************************************)
Leaves == {"run1", "run2"}

Children == {"fast5", "report", "summary"}

\* staging_input_path(wi), below staging_path(wi).
staging_input_path == <<"input">>

\* os.rename(a, b): a and what is below it are now at b.
rename(fs, a, b) ==
    LET below(q) == Len(a) <= Len(q) /\ SubSeq(q, 1, Len(a)) = a
        moved(q) == b \o SubSeq(q, Len(a) + 1, Len(q))
    IN  {q \in fs : ~below(q)} \cup {moved(q) : q \in {x \in fs : below(x)}}

\* iget -f -K -r src dst that has fetched the children `fetched`: the
\* collection becomes the directory dst/leaf.
iget(fs, leaf, fetched) ==
    fs \cup {<<leaf>>} \cup {<<leaf, c>> : c \in fetched}

\* shutil.move(src, dst): into dst when dst is an existing directory, an
\* error when the place in it is taken, else a rename.
shutil_move(fs, src, dst) ==
    IF dst \in fs
    THEN LET real_dst == dst \o <<src[Len(src)]>>
         IN  IF real_dst \in fs
             THEN [fs |-> fs, err |-> "Error"]
             ELSE [fs |-> rename(fs, src, real_dst), err |-> "none"]
    ELSE [fs |-> rename(fs, src, dst), err |-> "none"]

\* The body of stage_input_data for complete input data of which iget
\* fetches `fetched`: all of the contents, or less when it raises RodsError.
stage_input_data(fs, leaf, contents, fetched) ==
    LET got == iget(fs, leaf, fetched)
    IN  IF fetched # contents
        THEN [fs |-> got, err |-> "RodsError"]
        ELSE shutil_move(got, <<leaf>>, staging_input_path)

MaxPasses == 3

NoScratch ==
    [leaf |-> "run1", contents |-> {}, fs |-> {}, passes |-> 0,
     err |-> "none", succeeded |-> 0]

(***************************************************************************)
(* The state machine.                                                      *)
(***************************************************************************)
\* The processes that share the database, each with a session of its own.
Procs == {"a", "b"}

\* A session in which no call of add_work is under way.
Idle == [pc |-> "idle", input_path |-> "none", work_type |-> "none"]

NoCall ==
    [op |-> "init", job |-> 0, before |-> "none", written |-> <<>>,
     bodies |-> <<>>, err |-> "none", ret |-> 0, input_path |-> "none",
     work_type |-> "none", raised |-> "none", complete |-> TRUE,
     expos |-> <<>>, found |-> NothingFound]

\* The record of a call of op on work instance j with result r, where the
\* input data were complete or not.
Called(op, j, r, complete) ==
    [NoCall EXCEPT !.op = op, !.job = j, !.before = jobs[j].state,
                   !.written = r.written, !.bodies = r.bodies,
                   !.err = r.err, !.input_path = jobs[j].input_path,
                   !.work_type = jobs[j].work_type, !.raised = r.raised,
                   !.complete = complete]

\* A process that is not in a pass of run().
NoPass == [pc |-> "idle", step |-> 0, seen |-> "expired", err |-> "none"]

\* No invocation of the analysis body, and none recorded.
NoHistory == [recording |-> FALSE, analysed |-> [j \in 1..MaxJobs |-> 0]]

\* The history after a call on work instance j with result r: where the
\* invocations are recorded, the bodies of run_analysis in r are counted.
Recorded(j, r) ==
    IF history.recording
    THEN [history EXCEPT
             !.analysed[j] =
                 @ + Cardinality({i \in 1..Len(r.bodies) :
                                     r.bodies[i] = "analyse"})]
    ELSE history

\* An empty database and staging area, no call made.
InitWorkBot ==
    /\ jobs = <<>>
    /\ ontmeta = {}
    /\ staging = {}
    /\ last = NoCall
    /\ sessions = [s \in Procs |-> Idle]
    /\ engines = [s \in Procs |-> NoPass]
    /\ history = NoHistory

\* A new BatonClient and an item without tags.
InitRods ==
    /\ proc = FALSE
    /\ metadata = {}
    /\ rods = NoRodsCall

Init ==
    /\ InitWorkBot
    /\ InitRods
    /\ avus = NoSort
    /\ annotation = NoAnnotation
    /\ scratch = NoScratch

JobIds == 1..Len(jobs)

AddWork(p, wt) ==
    LET what == add_work(jobs, wt, p)
        call == [NoCall EXCEPT !.op = "add_work", !.input_path = p,
                               !.work_type = wt]
    IN  /\ \/ /\ what = "raise"
              /\ jobs' = jobs
              /\ last' = [call EXCEPT !.err = "AnalysisError"]
           \/ /\ what = "none"
              /\ jobs' = jobs
              /\ last' = call
           \/ /\ what = "insert"
              /\ Len(jobs) < MaxJobs
              /\ jobs' = Append(jobs, WorkInstance(p, wt, PENDING))
              /\ last' = [call EXCEPT !.job = Len(jobs) + 1,
                                      !.ret = Len(jobs) + 1,
                                      !.written = <<PENDING>>]
        /\ UNCHANGED <<ontmeta, staging, history>>
        /\ UNCHANGED elsewhere

\* ONTWorkBroker.request_work of the broker of the work bot of kind wt.
RequestWork(wt, expos, found) ==
    LET r == request_work(jobs, ontmeta, wt, expos, found)
    IN  /\ Len(r.jobs) <= MaxJobs
        /\ jobs' = r.jobs
        /\ ontmeta' = r.ontmeta
        /\ last' = [NoCall EXCEPT !.op = "request_work", !.work_type = wt,
                                  !.err = r.err,
                                  !.ret = IF r.err = "none" THEN r.num_added
                                                            ELSE 0,
                                  !.expos = expos, !.found = found]
        /\ UNCHANGED <<staging, history>>
        /\ UNCHANGED elsewhere

\* The call op on work instance j had result r.
Apply(op, j, r, complete) ==
    /\ jobs' = [jobs EXCEPT ![j].state = r.state]
    /\ \E dir \in StagingAfter(r, 1, complete, j \in staging,
                               jobs[j].work_type) :
          staging' = IF dir THEN staging \cup {j} ELSE staging \ {j}
    /\ last' = Called(op, j, r, complete)
    /\ history' = Recorded(j, r)
    /\ UNCHANGED ontmeta
    /\ UNCHANGED elsewhere

StageInputData(j) ==
    \E body \in BodyOutcomes(jobs[j].work_type, "stage"),
       complete \in CompleteInputs(jobs[j].work_type, jobs[j].state) :
        Apply("stage_input_data", j, stage_op(jobs[j].state, body), complete)

RunAnalysis(j) ==
    \E body \in BodyOutcomes(jobs[j].work_type, "analyse") :
        Apply("run_analysis", j, analyse_op(jobs[j].state, body), TRUE)

ArchiveOutputData(j) ==
    \E body \in BodyOutcomes(jobs[j].work_type, "archive") :
        Apply("archive_output_data", j, archive_op(jobs[j].state, body), TRUE)

AnnotateOutputData(j) ==
    \E body \in BodyOutcomes(jobs[j].work_type, "annotate") :
        Apply("annotate_output_data", j, annotate_op(jobs[j].state, body),
              TRUE)

UnstageInputData(j) ==
    \E body \in BodyOutcomes(jobs[j].work_type, "unstage") :
        Apply("unstage_input_data", j, unstage_op(jobs[j].state, body), TRUE)

CompleteAnalysis(j) ==
    \E body \in BodyOutcomes(jobs[j].work_type, "complete") :
        Apply("complete_analysis", j, complete_op(jobs[j].state, body), TRUE)

CancelAnalysis(j) ==
    \E body \in BodyOutcomes(jobs[j].work_type, "unstage") :
        Apply("cancel_analysis", j, cancel_op(jobs[j].state, body), TRUE)

Run(j) ==
    \E r \in {run(jobs[j].state, o) : o \in RunOutcomes(jobs[j].work_type)},
       complete \in CompleteInputs(jobs[j].work_type, jobs[j].state) :
        Apply("run", j, r, complete)

\* A direct call wi.<m>(session) of a transition method.
CallTransition(j, m) ==
    LET t == Transition(m, jobs[j].state)
    IN  Apply(m, j, [state |-> t.state, err |-> t.err,
                     written |-> t.written, bodies |-> <<>>,
                     raised |-> "none"], TRUE)

Next ==
    \/ \E p \in Paths, wt \in WorkType : AddWork(p, wt)
    \/ \E j \in JobIds : StageInputData(j)
    \/ \E j \in JobIds : RunAnalysis(j)
    \/ \E j \in JobIds : ArchiveOutputData(j)
    \/ \E j \in JobIds : AnnotateOutputData(j)
    \/ \E j \in JobIds : UnstageInputData(j)
    \/ \E j \in JobIds : CompleteAnalysis(j)
    \/ \E j \in JobIds : CancelAnalysis(j)
    \/ \E j \in JobIds : Run(j)

\* The WorkBot operations alone.
Spec == Init /\ [][Next]_vars

\* An empty database where every invocation of the analysis body is
\* counted.
InitCounted ==
    /\ jobs = <<>>
    /\ ontmeta = {}
    /\ staging = {}
    /\ last = NoCall
    /\ sessions = [s \in Procs |-> Idle]
    /\ engines = [s \in Procs |-> NoPass]
    /\ history = [NoHistory EXCEPT !.recording = TRUE]
    /\ InitRods
    /\ avus = NoSort
    /\ annotation = NoAnnotation
    /\ scratch = NoScratch

\* The operations of the work bots with the analyses counted.
SpecCounted == InitCounted /\ [][Next]_vars

NextDirect ==
    \/ Next
    \/ \E j \in JobIds, m \in Methods : CallTransition(j, m)

\* The WorkBot operations and direct calls of the transition methods.
SpecDirect == Init /\ [][NextDirect]_vars

\* The inputs of request_work: nothing is found for a tuple the warehouse
\* query did not return.
BrokerInputs ==
    {in \in [expos : ExperimentSlots, found : [Expts -> FoundLists]] :
        \A e \in Expts :
            in.found[e] # <<>> => \E i \in 1..Len(in.expos) : in.expos[i] = e}

NextBroker ==
    \/ \E wt \in WorkType, in \in BrokerInputs :
          RequestWork(wt, in.expos, in.found)
    \/ \E p \in Paths, wt \in WorkType : AddWork(p, wt)
    \/ \E j \in JobIds : Run(j)
    \/ \E j \in JobIds : CancelAnalysis(j)

\* A broker and its work bot: request_work, add_work, run and
\* cancel_analysis.
SpecBroker == Init /\ [][NextBroker]_vars

\* request_work in a process that is stopped between two of its commits.
RequestWorkInterrupted(wt, expos, found, n) ==
    LET whole == request_work(jobs, ontmeta, wt, expos, found)
        r == interrupted(jobs, whole, n)
    IN  /\ n < whole.num_added
        /\ Len(r.jobs) <= MaxJobs
        /\ jobs' = r.jobs
        /\ ontmeta' = r.ontmeta
        /\ last' = [NoCall EXCEPT !.op = "request_work", !.work_type = wt,
                                  !.err = r.err, !.expos = expos,
                                  !.found = found]
        /\ UNCHANGED <<staging, history>>
        /\ UNCHANGED elsewhere

NextInterrupted ==
    \/ \E wt \in WorkType, in \in BrokerInputs :
          RequestWork(wt, in.expos, in.found)
    \/ \E wt \in WorkType, in \in BrokerInputs, n \in 0..(MaxJobs - 1) :
          RequestWorkInterrupted(wt, in.expos, in.found, n)
    \/ \E j \in JobIds : Run(j)
    \/ \E j \in JobIds : CancelAnalysis(j)

\* A broker whose passes can be interrupted, and its work bot: every work
\* instance is inserted by the broker.
SpecInterrupted == Init /\ [][NextInterrupted]_vars

(***************************************************************************)
(* base.py: add_work called by several processes.  Each query and the      *)
(* commit of the new row is a database interaction of its own; sessions[s] *)
(* is the place the call of process s has reached and what it was called   *)
(* with.  The workinstance table has no uniqueness constraint over the     *)
(* input path and the work type, so the commit of a row never fails.       *)
(***************************************************************************)
AddWorkCall(s) ==
    [NoCall EXCEPT !.op = "add_work",
                   !.input_path = sessions[s].input_path,
                   !.work_type = sessions[s].work_type]

\* Process s calls add_work(p) on its work bot of kind wt: the query for
\* ended work, which raises when there is any.
AddWorkFindEnded(s, p, wt) ==
    /\ sessions[s].pc = "idle"
    /\ \/ /\ find_work(jobs, wt, p, end_states(wt), {}) # {}
          /\ last' = [NoCall EXCEPT !.op = "add_work", !.input_path = p,
                                    !.work_type = wt,
                                    !.err = "AnalysisError"]
          /\ UNCHANGED sessions
       \/ /\ find_work(jobs, wt, p, end_states(wt), {}) = {}
          /\ sessions' = [sessions EXCEPT ![s] =
                             [pc |-> "find_incomplete", input_path |-> p,
                              work_type |-> wt]]
          /\ UNCHANGED last
    /\ UNCHANGED <<jobs, ontmeta, staging, irods, scratch, engines, history>>

\* The query for incomplete work, which returns None when there is any.
AddWorkFindIncomplete(s) ==
    LET p == sessions[s].input_path
        wt == sessions[s].work_type
        incomplete == find_work(jobs, wt, p, {},
                                end_states(wt) \cup {CANCELLED, COMPLETED})
    IN  /\ sessions[s].pc = "find_incomplete"
        /\ \/ /\ incomplete # {}
              /\ last' = AddWorkCall(s)
              /\ sessions' = [sessions EXCEPT ![s] = Idle]
           \/ /\ incomplete = {}
              /\ sessions' = [sessions EXCEPT ![s].pc = "commit"]
              /\ UNCHANGED last
        /\ UNCHANGED <<jobs, ontmeta, staging, irods, scratch, engines, history>>

\* session.add(wi) and session.commit() of the new PENDING row.
AddWorkCommit(s) ==
    /\ sessions[s].pc = "commit"
    /\ Len(jobs) < MaxJobs
    /\ jobs' = Append(jobs, WorkInstance(sessions[s].input_path,
                                         sessions[s].work_type, PENDING))
    /\ last' = [AddWorkCall(s) EXCEPT !.job = Len(jobs) + 1,
                                      !.ret = Len(jobs) + 1,
                                      !.written = <<PENDING>>]
    /\ sessions' = [sessions EXCEPT ![s] = Idle]
    /\ UNCHANGED <<ontmeta, staging, irods, scratch, engines, history>>

NextShared ==
    \/ \E s \in Procs, p \in Paths, wt \in WorkType :
          AddWorkFindEnded(s, p, wt)
    \/ \E s \in Procs : AddWorkFindIncomplete(s)
    \/ \E s \in Procs : AddWorkCommit(s)
    \/ \E j \in JobIds : CancelAnalysis(j)

\* Two processes adding work to one database, and cancel_analysis.
SpecShared == Init /\ [][NextShared]_vars

(***************************************************************************)
(* irods.py: the calls on one BatonClient and on one item of the archive   *)
(* that uses it.                                                           *)
(***************************************************************************)
Client == [proc |-> proc, log |-> <<>>]

\* The call op with the argument tags T had the result r.
RodsCalled(op, T, r) ==
    /\ proc' = r.proc
    /\ metadata' = r.metadata
    /\ rods' = [NoRodsCall EXCEPT !.op = op, !.avus = T, !.ret = r.ret,
                                  !.log = r.log, !.was = proc]
    /\ UNCHANGED <<workbot, avus, annotation, scratch>>

Start == RodsCalled("start", {}, Result(start(Client), metadata, <<>>))

Stop == RodsCalled("stop", {}, Result(stop(Client), metadata, <<>>))

List == RodsCalled("list", {}, list(Client, metadata))

MetaAdd(T) == RodsCalled("meta_add", T, meta_add(Client, metadata, T))

MetaRemove(T) ==
    RodsCalled("meta_remove", T, meta_remove(Client, metadata, T))

MetaSupersede(T) ==
    RodsCalled("meta_supersede", T, meta_supersede(Client, metadata, T))

NextRods ==
    \/ Start
    \/ Stop
    \/ List
    \/ \E T \in Arguments : MetaAdd(T)
    \/ \E T \in Arguments : MetaRemove(T)
    \/ \E T \in Arguments : MetaSupersede(T)

\* A BatonClient and the metadata of one item.
SpecRods == Init /\ [][NextRods]_vars

\* item.exists() when the list request comes to `answer`.
Exists(answer) ==
    LET r == exists(Client, metadata, answer)
    IN  /\ proc' = r.proc
        /\ metadata' = r.metadata
        /\ rods' = [NoRodsCall EXCEPT !.op = "exists", !.ret = r.ret,
                                      !.log = r.log, !.was = proc,
                                      !.err = r.err, !.answer = answer]
        /\ UNCHANGED <<workbot, avus, annotation, scratch>>

NextExists ==
    \/ Start
    \/ Stop
    \/ \E T \in Arguments : MetaAdd(T)
    \/ \E T \in Arguments : MetaRemove(T)
    \/ \E answer \in ListAnswers : Exists(answer)

\* A BatonClient and one item whose existence is tested.
SpecExists == Init /\ [][NextExists]_vars

(***************************************************************************)
(* irods.py: sorting a list of tags.                                       *)
(***************************************************************************)
InitSort ==
    /\ InitWorkBot
    /\ InitRods
    /\ \E l \in Lists : avus = [NoSort EXCEPT !.list = l]
    /\ annotation = NoAnnotation
    /\ scratch = NoScratch

Sort ==
    /\ ~avus.done
    /\ avus' = [avus EXCEPT !.ret = sorted(avus.list), !.done = TRUE]
    /\ UNCHANGED <<workbot, proc, metadata, rods, annotation, scratch>>

NextSort == Sort

\* Every list of at most MaxLen tags, sorted.
SpecSort == InitSort /\ [][NextSort]_vars

\* The lists of at most two tags to compare, of every tag the constructor
\* makes.
InitOrder ==
    /\ InitWorkBot
    /\ InitRods
    /\ \E n \in 0..2 :
          \E l \in [1..n -> AVUs \cup QualifiedAVUs] :
              avus = [NoSort EXCEPT !.list = l]
    /\ annotation = NoAnnotation
    /\ scratch = NoScratch

\* Every list of at most two tags, compared and sorted.
SpecOrder == InitOrder /\ [][NextSort]_vars

(***************************************************************************)
(* ont.py: the annotate step of a metadata-update work instance on the     *)
(* rows the warehouse holds for its run.                                   *)
(***************************************************************************)
InitAnnotate ==
    /\ InitWorkBot
    /\ InitRods
    /\ avus = NoSort
    /\ \E rows \in PlexInfos :
          annotation = [NoAnnotation EXCEPT !.plex_info = rows]
    /\ scratch = NoScratch

AnnotateBody ==
    /\ ~annotation.done
    /\ annotation' =
          [annotation EXCEPT
              !.colls = annotate_output_data(annotation.colls,
                                             annotation.plex_info),
              !.done = TRUE]
    /\ UNCHANGED <<workbot, proc, metadata, rods, avus, scratch>>

NextAnnotate == AnnotateBody

\* The body of annotate_output_data on every list of at most MaxRows rows.
SpecAnnotate == InitAnnotate /\ [][NextAnnotate]_vars

(***************************************************************************)
(* base.py: the stage step of a PENDING work instance entered again and    *)
(* again because the STAGED transition is not committed.                   *)
(***************************************************************************)
InitStage ==
    /\ InitWorkBot
    /\ InitRods
    /\ avus = NoSort
    /\ annotation = NoAnnotation
    /\ \E leaf \in Leaves, contents \in SUBSET Children :
          scratch = [NoScratch EXCEPT !.leaf = leaf, !.contents = contents]

\* One pass of the body in which iget fetches `fetched`; the transition to
\* STAGED is not committed.
StageBody(fetched) ==
    LET r == stage_input_data(scratch.fs, scratch.leaf, scratch.contents,
                              fetched)
    IN  /\ scratch.passes < MaxPasses
        /\ scratch' =
              [scratch EXCEPT
                  !.fs = r.fs, !.err = r.err, !.passes = @ + 1,
                  !.succeeded = IF r.err = "none" THEN @ + 1 ELSE @]
        /\ UNCHANGED <<workbot, irods>>

NextStage == \E fetched \in SUBSET scratch.contents : StageBody(fetched)

\* The body of stage_input_data run up to MaxPasses times on one work
\* instance.
SpecStage == InitStage /\ [][NextStage]_vars

(***************************************************************************)
(* base.py: two processes, each with a session of its own, at work on the  *)
(* first work instance.  A session reads the states of a work instance     *)
(* from the database when it first needs them and holds what it read until *)
(* it commits; a transition method checks the state the session holds and  *)
(* adds a row that becomes the current state for every process.  A pass of *)
(* run() is a sequence of steps, each between two accesses to the          *)
(* database.                                                               *)
(***************************************************************************)
StepOrder ==
    <<"stage", "analyse", "archive", "annotate", "unstage", "complete">>

\* The precondition the decorator of the step tests.
StepCheck(step, current) ==
    CASE step = "stage" -> is_pending(current)
      [] step = "analyse" -> is_staged(current)
      [] step = "archive" -> is_succeeded(current)
      [] step = "annotate" -> is_archived(current)
      [] step = "unstage" -> is_annotated(current)
      [] step = "complete" -> is_unstaged(current)

\* The transition the decorator of the step calls when the body returns.
StepTransition(step, current) ==
    CASE step = "stage" -> staged(current)
      [] step = "archive" -> archived(current)
      [] step = "annotate" -> annotated(current)
      [] step = "unstage" -> unstaged(current)
      [] step = "complete" -> completed(current)

\* wi.state() in the session of process s: the state held, or the current
\* state in the database when the session holds none.
Seen(s) ==
    IF engines[s].seen = "expired" THEN jobs[1].state ELSE engines[s].seen

\* The pass of process s goes on to the step after k, or ends.
NextStep(s, k, seen) ==
    IF k < Len(StepOrder)
    THEN [pc |-> "check", step |-> k + 1, seen |-> seen, err |-> "none"]
    ELSE [NoPass EXCEPT !.seen = seen]

\* The pass of process s ends with the exception exc.
Raised(exc) == [NoPass EXCEPT !.err = exc]

\* The session of process s commits the transition t, or the transition
\* raises and the pass ends.
Commit(s, t, then) ==
    IF t.err # "none"
    THEN /\ engines' = [engines EXCEPT ![s] = Raised(t.err)]
         /\ UNCHANGED jobs
    ELSE /\ jobs' = [jobs EXCEPT ![1].state = t.state]
         /\ engines' = [engines EXCEPT ![s] = then]

\* What a pass leaves alone.
outside == <<ontmeta, staging, last, sessions, irods, scratch, history>>

\* A database with one work instance, as add_work leaves it.
InitEngines ==
    /\ \E wt \in WorkType : jobs = <<WorkInstance("p1", wt, PENDING)>>
    /\ ontmeta = {}
    /\ staging = {}
    /\ last = NoCall
    /\ sessions = [s \in Procs |-> Idle]
    /\ engines = [s \in Procs |-> NoPass]
    /\ history = NoHistory
    /\ InitRods
    /\ avus = NoSort
    /\ annotation = NoAnnotation
    /\ scratch = NoScratch

\* Process s calls run(session, wi) with the work instance as a query of
\* its session returns it.
BeginRun(s) ==
    /\ engines[s].pc = "idle"
    /\ engines' = [engines EXCEPT ![s] = NextStep(s, 0, "expired")]
    /\ UNCHANGED <<jobs, outside>>

\* The decorator of the step tests its precondition.
Check(s) ==
    LET k == engines[s].step
        current == Seen(s)
    IN  /\ engines[s].pc = "check"
        /\ engines' =
              [engines EXCEPT
                  ![s] = IF StepCheck(StepOrder[k], current)
                         THEN [@ EXCEPT
                                  !.pc = IF StepOrder[k] = "analyse"
                                         THEN "start" ELSE "body",
                                  !.seen = current]
                         ELSE NextStep(s, k, current)]
        /\ UNCHANGED <<jobs, outside>>

\* The body of a step other than the analysis ends; when it returns, the
\* decorator calls the transition and commits.
Finish(s, body) ==
    LET k == engines[s].step
    IN  /\ engines[s].pc = "body"
        /\ body \in BodyOutcomes(jobs[1].work_type, StepOrder[k])
        /\ IF body # "ok"
           THEN /\ engines' = [engines EXCEPT ![s] = Raised(body)]
                /\ UNCHANGED jobs
           ELSE Commit(s, StepTransition(StepOrder[k], engines[s].seen),
                       NextStep(s, k, "expired"))
        /\ UNCHANGED outside

\* analyse_op calls wi.started and commits before the body.
StartAnalysis(s) ==
    /\ engines[s].pc = "start"
    /\ Commit(s, started(engines[s].seen),
              [engines[s] EXCEPT !.pc = "begin", !.seen = "expired"])
    /\ UNCHANGED outside

\* The body of run_analysis logs the work instance, for which the session
\* reads its states, and starts the subprocess.
BeginAnalysis(s) ==
    /\ engines[s].pc = "begin"
    /\ engines' = [engines EXCEPT ![s] = [@ EXCEPT !.pc = "analysing",
                                                     !.seen = Seen(s)]]
    /\ UNCHANGED <<jobs, outside>>

\* The subprocess ends: analyse_op calls wi.succeeded, or wi.failed on an
\* AnalysisError, and commits; another exception escapes.
EndAnalysis(s, body) ==
    LET k == engines[s].step
    IN  /\ engines[s].pc = "analysing"
        /\ body \in BodyOutcomes(jobs[1].work_type, "analyse")
        /\ CASE body = "ok" ->
                  Commit(s, succeeded(engines[s].seen),
                         NextStep(s, k, "expired"))
             [] body = "AnalysisError" ->
                  Commit(s, failed(engines[s].seen), Raised(body))
             [] OTHER ->
                  /\ engines' = [engines EXCEPT ![s] = Raised(body)]
                  /\ UNCHANGED jobs
        /\ UNCHANGED outside

\* Process s, in no pass of its own, calls cancel_analysis(session, wi).
Cancel(s) ==
    /\ engines[s].pc = "idle"
    /\ \E body \in BodyOutcomes(jobs[1].work_type, "unstage") :
          LET r == cancel_op(jobs[1].state, body)
          IN  /\ jobs' = [jobs EXCEPT ![1].state = r.state]
              /\ engines' = [engines EXCEPT ![s] = Raised(r.err)]
    /\ UNCHANGED outside

NextEngines ==
    \/ \E s \in Procs : BeginRun(s)
    \/ \E s \in Procs : Check(s)
    \/ \E s \in Procs, body \in Outcomes : Finish(s, body)
    \/ \E s \in Procs : StartAnalysis(s)
    \/ \E s \in Procs : BeginAnalysis(s)
    \/ \E s \in Procs, body \in Outcomes : EndAnalysis(s, body)
    \/ \E s \in Procs : Cancel(s)

\* Two processes run and cancel the same work instance.
SpecEngines == InitEngines /\ [][NextEngines]_vars

(***************************************************************************)
(* base.py: run() called again and again on every work instance, with step *)
(* bodies that succeed.  A work instance is left in STARTED when its        *)
(* analysis was interrupted by an exception other than AnalysisError.       *)
(***************************************************************************)
AllSucceed ==
    [stage |-> "ok", analyse |-> "ok", archive |-> "ok", annotate |-> "ok",
     unstage |-> "ok", complete |-> "ok"]

\* What run() does with a work instance in each state when every body that
\* is invoked succeeds.
run_succeeding == [current \in WorkState |-> run(current, AllSucceed)]

\* run(session, wi) where every body that is invoked succeeds.
RunSucceeding(j) ==
    /\ j \in JobIds
    /\ Apply("run", j, run_succeeding[jobs[j].state], TRUE)

\* stage_input_data(session, wi) where the body succeeds.
StageSucceeding(j) ==
    Apply("stage_input_data", j, stage_op(jobs[j].state, "ok"), TRUE)

\* run_analysis(session, wi) where the body raises an exception that is not
\* an AnalysisError.
AnalysisInterrupted(j) ==
    /\ "Error" \in BodyOutcomes(jobs[j].work_type, "analyse")
    /\ Apply("run_analysis", j, analyse_op(jobs[j].state, "Error"), TRUE)

NextRepeated ==
    \/ \E p \in Paths, wt \in WorkType : AddWork(p, wt)
    \/ \E j \in JobIds : StageSucceeding(j)
    \/ \E j \in JobIds : AnalysisInterrupted(j)
    \/ \E j \in JobIds : RunSucceeding(j)

\* run() is called on every work instance again and again: a call that would
\* change something is not put off for ever.
SpecRepeated ==
    /\ Init
    /\ [][NextRepeated]_vars
    /\ \A j \in 1..MaxJobs : WF_vars(RunSucceeding(j))

(***************************************************************************)
(* The legal-transition table the claims refer to.                         *)
(***************************************************************************)
NonTerminal == WorkState \ {COMPLETED, CANCELLED}

LegalTransitions ==
    {<<PENDING, STAGED>>, <<STAGED, STARTED>>, <<STAGED, UNSTAGED>>,
     <<STARTED, SUCCEEDED>>, <<STARTED, FAILED>>, <<SUCCEEDED, ARCHIVED>>,
     <<ARCHIVED, ANNOTATED>>, <<ANNOTATED, UNSTAGED>>,
     <<UNSTAGED, COMPLETED>>}
        \cup {<<x, CANCELLED>> : x \in NonTerminal}

\* The end-states the claims give for each kind.
ClaimEndStates(wt) ==
    IF wt = ONTRunMetadataUpdate THEN {CANCELLED} ELSE {COMPLETED, CANCELLED}

\* The rows of (input path, kind) in the store js.
PairJobs(js, p, wt) ==
    {i \in 1..Len(js) : js[i].input_path = p /\ js[i].work_type = wt}

\* The (from, to) pairs the last call wrote for its work instance.
LastPairs ==
    LET w == last.written
    IN  IF w = <<>> \/ last.op \in {"init", "add_work"}
        THEN {}
        ELSE {<<last.before, w[1]>>}
                \cup {<<w[i], w[i + 1]>> : i \in 1..(Len(w) - 1)}

Operations == {"stage_input_data", "run_analysis", "archive_output_data",
               "annotate_output_data", "unstage_input_data",
               "complete_analysis", "cancel_analysis", "run"}

\* C1 as stated: every state change an operation persists is a pair of the
\* legal-transition table, where CANCELLED is entered only from the eight
\* non-terminal states.
C1_EveryPersistedTransitionInTable ==
    last.op \in Operations => LastPairs \subseteq LegalTransitions

\* C1 amended: every state change an operation persists is a pair of the
\* table or X -> CANCELLED for X any of the ten states, CANCELLED and
\* COMPLETED included: cancel_analysis records CANCELLED whatever the state.
C1_PersistedTransitionsLegalOrCancel ==
    last.op \in Operations =>
        LastPairs \subseteq
            (LegalTransitions \cup {<<x, CANCELLED>> : x \in WorkState})

\* cancel_analysis has been called on a work instance that was CANCELLED.
C1_Witness ==
    /\ last.op = "cancel_analysis"
    /\ last.before = CANCELLED
    /\ last.written = <<CANCELLED>>

C3_TerminalStatesNeverChange ==
    [][\A j \in JobIds :
          jobs[j].state \in {COMPLETED, CANCELLED} =>
              jobs'[j].state = jobs[j].state]_vars

\* C3 amended: a CANCELLED job stays CANCELLED under every operation and
\* transition method; a COMPLETED job is changed by no step operation, no
\* run() and no transition method other than cancelling: cancel_analysis
\* and cancelled() move it to CANCELLED.
C3_TerminalExceptCancel ==
    [][\A j \in JobIds :
          /\ jobs[j].state = CANCELLED => jobs'[j].state = CANCELLED
          /\ jobs[j].state = COMPLETED =>
                \/ jobs'[j].state = COMPLETED
                \/ /\ jobs'[j].state = CANCELLED
                   /\ last'.op \in {"cancel_analysis", "cancelled"}
                   /\ last'.job = j]_vars

\* cancel_analysis has moved a COMPLETED job to CANCELLED.
C3_Witness ==
    /\ last.op = "cancel_analysis"
    /\ last.before = COMPLETED
    /\ jobs[last.job].state = CANCELLED

\* C4: a transition method called for a (from, to) pair that is not in the
\* legal-transition table raises StateTransitionError and leaves the state
\* equal to 'from'.
C4_IllegalTransitionRaises ==
    (last.op \in Methods
        /\ <<last.before, Target(last.op)>> \notin LegalTransitions) =>
            /\ last.err = "StateTransitionError"
            /\ jobs[last.job].state = last.before

\* C4, the instances the claim names for unstaged(): called from PENDING,
\* STARTED, SUCCEEDED, ARCHIVED or FAILED it raises StateTransitionError and
\* leaves the state unchanged.
C4_IllegalUnstagedRaises ==
    (last.op = "unstaged"
        /\ last.before \in {PENDING, STARTED, SUCCEEDED, ARCHIVED, FAILED}) =>
            /\ last.err = "StateTransitionError"
            /\ jobs[last.job].state = last.before

\* C5: a transition method called for a (from, to) pair of the
\* legal-transition table raises nothing and leaves the job in state 'to'.
C5_LegalTransitionSucceeds ==
    (last.op \in Methods
        /\ <<last.before, Target(last.op)>> \in LegalTransitions) =>
            /\ last.err = "none"
            /\ jobs[last.job].state = Target(last.op)

\* The step from the current state to the next is a call add_work(p) of the
\* work bot of kind wt.
IsAddWork(p, wt) ==
    /\ last'.op = "add_work"
    /\ last'.input_path = p
    /\ last'.work_type = wt

\* The step inserted one PENDING job of (p, wt), returned it and changed no
\* other row.
Inserted(p, wt) ==
    /\ jobs' = Append(jobs, [input_path |-> p, work_type |-> wt,
                             state |-> PENDING])
    /\ last'.ret = Len(jobs) + 1
    /\ last'.err = "none"

\* C6: add_work(path) for a (path, kind) that has no job inserts exactly one
\* new PENDING job of that path and kind, returns it and changes no other
\* row.
C6_AddWorkInsertsPending ==
    [][\A p \in Paths, wt \in WorkType :
          (IsAddWork(p, wt) /\ PairJobs(jobs, p, wt) = {}) =>
              Inserted(p, wt)]_vars

\* add_work has inserted a second row next to a job of another kind.
C6_Witness ==
    /\ last.op = "add_work"
    /\ last.ret = 2
    /\ Len(jobs) = 2
    /\ jobs[2].state = PENDING
    /\ jobs[1].work_type # jobs[2].work_type
    /\ jobs[1].state = STARTED

OnlyFailed(p) ==
    /\ PairJobs(jobs, p, ONTRunData) # {}
    /\ \A i \in PairJobs(jobs, p, ONTRunData) : jobs[i].state = FAILED

StepOperations == {"stage_input_data", "run_analysis", "archive_output_data",
                   "annotate_output_data", "unstage_input_data",
                   "complete_analysis"}

\* The state a step operation expects.
Precondition(op) ==
    CASE op \in {"stage_input_data", "stage"} -> PENDING
      [] op \in {"run_analysis", "analyse"} -> STAGED
      [] op \in {"archive_output_data", "archive"} -> SUCCEEDED
      [] op \in {"annotate_output_data", "annotate"} -> ARCHIVED
      [] op \in {"unstage_input_data", "unstage"} -> ANNOTATED
      [] op \in {"complete_analysis", "complete"} -> UNSTAGED

\* The last element of a non-empty sequence.
Last(q) == q[Len(q)]

\* C11: one call of run(job) on a PENDING job whose step bodies all succeed
\* writes exactly the states STAGED, STARTED, SUCCEEDED, ARCHIVED, ANNOTATED,
\* UNSTAGED, COMPLETED and invokes the bodies stage, analyse, archive,
\* annotate, unstage, complete in that order, each once.
C11_RunCompletesPendingJob ==
    (last.op = "run" /\ last.before = PENDING /\ last.raised = "none") =>
        /\ last.written = <<STAGED, STARTED, SUCCEEDED, ARCHIVED, ANNOTATED,
                            UNSTAGED, COMPLETED>>
        /\ last.bodies = <<"stage", "analyse", "archive", "annotate",
                           "unstage", "complete">>
        /\ jobs[last.job].state = COMPLETED

\* C12: a step operation called on a job that is not in the step's
\* precondition state invokes no body, raises nothing, writes nothing and
\* leaves the state of the job unchanged.
C12_StepSkippedOutsidePrecondition ==
    (last.op \in StepOperations /\ last.before # Precondition(last.op)) =>
        /\ last.bodies = <<>>
        /\ last.err = "none"
        /\ last.written = <<>>
        /\ jobs[last.job].state = last.before

\* archive_output_data has been called on a PENDING job.
C12_Witness ==
    /\ last.op = "archive_output_data"
    /\ last.before = PENDING
    /\ jobs[last.job].state = PENDING

\* C13: when the body of the stage, archive, annotate, unstage or complete
\* step raises, the step commits no transition and the error reaches the
\* caller: after a step operation the state of the job is the state before
\* the call, and after run() it is the precondition state of the step whose
\* body raised.  The decorators of unstage and complete, whose bodies do
\* not raise in the two ONT work bots, do the same for a body that raises.
C13_BodyRaiseCommitsNothing ==
    /\ (/\ last.op \in StepOperations \cup {"run"}
        /\ last.raised # "none"
        /\ Last(last.bodies) # "analyse") =>
            /\ last.err = last.raised
            /\ jobs[last.job].state = Precondition(Last(last.bodies))
            /\ last.op \in StepOperations =>
                  /\ last.written = <<>>
                  /\ jobs[last.job].state = last.before
            /\ last.op = "run" =>
                  \/ last.written = <<>> /\ jobs[last.job].state = last.before
                  \/ /\ last.written # <<>>
                     /\ Last(last.written) = jobs[last.job].state
    /\ \A current \in WorkState, exc \in {"AnalysisError", "Error"} :
          /\ unstage_op(current, exc) \in
                {Skipped(current), BodyRaised(current, "unstage", exc)}
          /\ complete_op(current, exc) \in
                {Skipped(current), BodyRaised(current, "complete", exc)}
          /\ unstage_op(ANNOTATED, exc).bodies = <<"unstage">>
          /\ complete_op(UNSTAGED, exc).bodies = <<"complete">>

\* run() has been called on a STAGED job, the analysis succeeded and the
\* archive body raised: the job is SUCCEEDED.
C13_Witness ==
    /\ last.op = "run"
    /\ last.before = STAGED
    /\ last.raised = "Error"
    /\ last.err = "Error"
    /\ last.bodies = <<"analyse", "archive">>
    /\ jobs[last.job].state = SUCCEEDED

\* C14: whenever the analyse body has run STARTED was written before it;
\* when the body raises AnalysisError the job goes STARTED -> FAILED, the
\* AnalysisError reaches the caller and the analyse body is the last body
\* of the pass.
C14_AnalysisErrorFails ==
    (last.op \in {"run_analysis", "run"}
        /\ \E i \in 1..Len(last.bodies) : last.bodies[i] = "analyse") =>
            /\ \E i \in 1..Len(last.written) : last.written[i] = STARTED
            /\ last.raised = "AnalysisError" =>
                  /\ Len(last.written) >= 2
                  /\ Last(last.written) = FAILED
                  /\ last.written[Len(last.written) - 1] = STARTED
                  /\ jobs[last.job].state = FAILED
                  /\ last.err = "AnalysisError"
                  /\ Last(last.bodies) = "analyse"

\* run() has been called on a PENDING job and the analysis failed.
C14_Witness ==
    /\ last.op = "run"
    /\ last.before = PENDING
    /\ last.raised = "AnalysisError"
    /\ last.bodies = <<"stage", "analyse">>
    /\ jobs[last.job].state = FAILED

C16_IncompleteInputStaysPending ==
    (/\ last.op \in {"stage_input_data", "run"}
     /\ last.work_type = ONTRunData
     /\ last.before = PENDING
     /\ ~last.complete) =>
        /\ jobs[last.job].state = PENDING
        /\ last.written = <<>>
        /\ \A i \in 1..Len(last.bodies) : last.bodies[i] = "stage"

\* C17: cancel_analysis called on a job in any of the ten states returns
\* and leaves the job CANCELLED.
C17_CancelLeavesCancelled ==
    last.op = "cancel_analysis" =>
        /\ last.err = "none"
        /\ jobs[last.job].state = CANCELLED

\* C18: after cancel_analysis on a job that was STAGED or ANNOTATED the
\* staging directory of the job does not exist and the job is CANCELLED.
C18_CancelRemovesStagingDirectory ==
    (last.op = "cancel_analysis" /\ last.before \in {STAGED, ANNOTATED}) =>
        /\ last.job \notin staging
        /\ jobs[last.job].state = CANCELLED

(***************************************************************************)
(* The broker.                                                             *)
(***************************************************************************)
\* C19: after a call of request_work, a second call for the same warehouse
\* and archive contents inserts no job, returns 0 and leaves every job
\* unchanged.
C19_SecondRequestAddsNothing ==
    last.op = "request_work" =>
        LET again == request_work(jobs, ontmeta, last.work_type, last.expos,
                                  last.found)
        IN  /\ again.jobs = jobs
            /\ again.err = "none"
            /\ again.num_added = 0

\* The collections found for the tuples of the call, in the order of the
\* pass.
FoundPaths(expos, found) ==
    {p \in Paths : \E i \in 1..Len(expos) :
                      \E k \in 1..Len(found[expos[i]]) :
                          found[expos[i]][k] = p}

\* C20: the integer request_work returns is the number of rows the call
\* added: the rows that were there are unchanged, a call whose tuples match
\* no collection adds nothing, every row added is a PENDING job of the
\* broker's kind for a collection that was found, and a found collection
\* gets one new job exactly when add_work returns a job for it.
C20_ReturnCountsAddedRows ==
    [][(last'.op = "request_work" /\ last'.err = "none") =>
          LET wt == last'.work_type
              paths == FoundPaths(last'.expos, last'.found)
              added == (Len(jobs) + 1)..Len(jobs')
          IN  /\ Len(jobs') >= Len(jobs)
              /\ SubSeq(jobs', 1, Len(jobs)) = jobs
              /\ last'.ret = Len(jobs') - Len(jobs)
              /\ paths = {} => last'.ret = 0
              /\ \A i \in added :
                    /\ jobs'[i].state = PENDING
                    /\ jobs'[i].work_type = wt
                    /\ jobs'[i].input_path \in paths
              /\ \A p \in paths :
                    Cardinality({i \in added : jobs'[i].input_path = p}) =
                        IF add_work(jobs, wt, p) = "insert" THEN 1 ELSE 0]_vars

\* request_work has returned 1 for two tuples that match the same
\* collection: add_work returned a job for the first and nothing for the
\* second.
C20_Witness ==
    /\ last.op = "request_work"
    /\ last.err = "none"
    /\ last.ret = 1
    /\ last.expos = <<"e1", "e2">>
    /\ last.found["e1"] = <<"p1">>
    /\ last.found["e2"] = <<"p1">>
    /\ Len(jobs) = 2
    /\ jobs[2].state = PENDING
    /\ jobs[1].state = CANCELLED

\* C21: when two processes, each with a session of its own, call add_work
\* for the same (input path, kind) that has no job, then under every
\* interleaving of their queries and commits at most one job of the pair
\* exists.
C21_AtMostOneJobUnderRace ==
    \A p \in Paths, wt \in WorkType :
        Cardinality(PairJobs(jobs, p, wt)) <= 1

(***************************************************************************)
(* The metadata of an item and the order of tags.                          *)
(***************************************************************************)
\* C22: meta_add(T) leaves the item with the tags it had and those of T and
\* returns the number of tags of T the item did not have; called again with
\* T it returns 0 and leaves the tags as they are.
C22_MetaAddIdempotent ==
    [][rods'.op = "meta_add" =>
          LET T == rods'.avus
              again == meta_add([proc |-> proc', log |-> <<>>], metadata', T)
          IN  /\ metadata' = metadata \cup T
              /\ rods'.ret = <<Cardinality(T \ metadata)>>
              /\ again.ret = <<0>>
              /\ again.metadata = metadata \cup T]_vars

\* meta_add was called with two tags, one of which the item had, on an item
\* that had another tag as well: it returned 1.
C22_Witness ==
    /\ rods.op = "meta_add"
    /\ Cardinality(rods.avus) = 2
    /\ rods.ret = <<1>>
    /\ Cardinality(metadata) = 3

\* C23: meta_remove(T) removes the tags of T the item has and no other,
\* returns their number, and returns 0 when called again with T.
C23_MetaRemoveIdempotent ==
    [][rods'.op = "meta_remove" =>
          LET T == rods'.avus
              again == meta_remove([proc |-> proc', log |-> <<>>],
                                   metadata', T)
          IN  /\ metadata' = metadata \ T
              /\ rods'.ret = <<Cardinality(T \cap metadata)>>
              /\ again.ret = <<0>>
              /\ again.metadata = metadata \ T]_vars

\* meta_remove was called with two tags, one of which the item had, and
\* left a tag that was not an argument.
C23_Witness ==
    /\ rods.op = "meta_remove"
    /\ Cardinality(rods.avus) = 2
    /\ rods.ret = <<1>>
    /\ metadata # {}

\* The tags of `current` that share an attribute with a tag of T.
Sharing(current, T) ==
    {a \in current : \E t \in T : attribute(a) = attribute(t)}

\* What C24 says of every call meta_supersede(T) on an item with the tags
\* `before`, leaving `after` and returning ret.
Superseded(before, T, after, ret) ==
    /\ after = (before \ Sharing(before, T)) \cup T
    /\ ret = <<Cardinality(Sharing(before, T) \ T), Cardinality(T \ before)>>

NullFirst(x) == x

\* The place of a namespace or of units in the order, None last.
NullLast(x) == IF x = None THEN 3 ELSE x

\* a is before b, or equal to it, in the lexical order by namespace,
\* attribute, value and units, where Place gives the place of None.
LexLeq(a, b, Place(_)) ==
    LET ka == <<Place(a.namespace), a.attribute, a.value, Place(a.units)>>
        kb == <<Place(b.namespace), b.attribute, b.value, Place(b.units)>>
    IN  \/ ka = kb
        \/ \E i \in 1..4 :
              /\ ka[i] < kb[i]
              /\ \A k \in 1..(i - 1) : ka[k] = kb[k]

\* The list out holds the elements of the list in, each as often.
Permutation(in, out) ==
    /\ Len(in) = Len(out)
    /\ \A x \in AVUs :
          Cardinality({i \in 1..Len(in) : in[i] = x}) =
              Cardinality({i \in 1..Len(out) : out[i] = x})

\* C25 as stated: a sorted list of tags is in lexical order by namespace,
\* attribute, value and units, a tag with a null namespace (or units) before
\* an otherwise equal tag with a namespace (or units).
C25_SortedNullsFirst ==
    avus.done =>
        /\ Permutation(avus.list, avus.ret)
        /\ \A i, j \in 1..Len(avus.ret) :
              i < j => LexLeq(avus.ret[i], avus.ret[j], NullFirst)

\* C25 amended: a sorted list of tags is in lexical order by namespace,
\* attribute, value and units, a tag with a null namespace (or units) after
\* every tag with a namespace (after an otherwise equal tag with units).
C25_SortedNullsLast ==
    avus.done =>
        /\ Permutation(avus.list, avus.ret)
        /\ \A i, j \in 1..Len(avus.ret) :
              i < j => LexLeq(avus.ret[i], avus.ret[j], NullLast)

\* A list of two tags has been sorted that are equal but for the namespace:
\* the tag without a namespace was first and is now behind the other.
C25_Witness ==
    /\ avus.done
    /\ Len(avus.list) = 2
    /\ avus.list[2].namespace # None
    /\ avus.list[1] = [avus.list[2] EXCEPT !.namespace = None]
    /\ avus.ret = <<avus.list[2], avus.list[1]>>

\* The calls that send requests to the archive.
ArchiveOperations == {"list", "meta_add", "meta_remove", "meta_supersede"}

C26_SingleSampleAnnotatesTopCollection ==
    (/\ annotation.done
     /\ Len(annotation.plex_info) = 1
     /\ annotation.plex_info[1].tag_index = None) =>
        LET fc == annotation.plex_info[1]
        IN  /\ ont_metadata \subseteq annotation.colls[top]
            /\ make_sample_metadata(fc.sample)
                   \subseteq annotation.colls[top]
            /\ make_study_metadata(fc.study)
                   \subseteq annotation.colls[top]

(***************************************************************************)
(* Failure of the analysis and repeated runs.                              *)
(***************************************************************************)
\* C28: when the analyse body raises an exception other than AnalysisError
\* (a RodsError or a BatonError) after STARTED has been committed, the job
\* goes to FAILED as for an AnalysisError and is not left in STARTED.
C28_OtherErrorFails ==
    (/\ last.op \in {"run_analysis", "run"}
     /\ last.raised = "Error"
     /\ last.bodies # <<>>
     /\ Last(last.bodies) = "analyse") =>
        /\ jobs[last.job].state = FAILED
        /\ Last(last.written) = FAILED

\* C29: when every step body succeeds and run() is called again and again,
\* every job that is not COMPLETED, CANCELLED or FAILED, a job left in
\* STARTED included, is eventually COMPLETED.
C29_RepeatedRunCompletes ==
    \A j \in 1..MaxJobs :
        (j \in JobIds /\ jobs[j].state \notin {COMPLETED, CANCELLED, FAILED})
            ~> (j \in JobIds /\ jobs[j].state = COMPLETED)

MetaOf(meta, j) == {e \in Expts : <<j, e>> \in meta}

\* The tuples of the pass whose metadata query returned the collection p.
TuplesFinding(expos, found, p) ==
    {e \in Expts :
        /\ \E i \in 1..Len(expos) : expos[i] = e
        /\ \E k \in 1..Len(found[e]) : found[e][k] = p}

\* C31: when a pass of request_work queues a job for a collection that the
\* metadata queries of two distinct tuples both returned, the job ends the
\* pass with one ONTMeta row for each of the tuples.
C31_OneMetaRowPerTuple ==
    [][(last'.op = "request_work" /\ last'.err = "none") =>
          \A j \in (Len(jobs) + 1)..Len(jobs') :
              MetaOf(ontmeta', j) =
                  TuplesFinding(last'.expos, last'.found,
                                jobs'[j].input_path)]_vars

(***************************************************************************)
(* The staging directory.                                                  *)
(***************************************************************************)
\* The staging directory after one pass of the stage body on an empty
\* directory: the children of the collection directly under input.
SinglePassLayout ==
    {staging_input_path}
        \cup {staging_input_path \o <<c>> : c \in scratch.contents}

\* C32: when the body of the stage step has succeeded and runs again because
\* STAGED was not committed, the staging directory is as after one pass: the
\* children of the archive collection directly under input and no directory
\* named after the leaf of the collection.
C32_StageReentrySameLayout ==
    (scratch.succeeded >= 1 /\ scratch.err = "none") =>
        scratch.fs = SinglePassLayout

\* The body has succeeded twice on the same staging directory.
C32_Witness ==
    /\ scratch.succeeded = 2
    /\ scratch.err = "none"
    /\ scratch.contents # {}
    /\ <<"input", scratch.leaf>> \in scratch.fs

(***************************************************************************)
(* Two processes on one work instance.                                     *)
(***************************************************************************)
\* C33: once a cancel is committed while the pass of another process is in
\* flight, the persisted state stays CANCELLED: no step of any process
\* commits a later state over it.
C33_CancelledStays ==
    [][jobs # <<>> /\ jobs[1].state = CANCELLED
          => jobs'[1].state = CANCELLED]_vars

\* A process is blocked in the analysis while the work instance is
\* CANCELLED in the database.
C33_Witness ==
    /\ jobs[1].state = CANCELLED
    /\ \E s \in Procs : engines[s].pc = "analysing"

(***************************************************************************)
(* The analysis of a work instance.                                        *)
(***************************************************************************)
\* C34: over any sequence of calls of run(), of the step operations and of
\* cancel_analysis, the body of the analysis is invoked at most once on a
\* work instance.
C34_AnalysedAtMostOnce ==
    \A j \in JobIds : history.analysed[j] <= 1

\* run() or run_analysis was called on a work instance that had been
\* analysed and had left STAGED.
C34_Witness ==
    /\ last.op \in {"run", "run_analysis"}
    /\ last.bodies = <<>>
    /\ last.before \in {STARTED, SUCCEEDED, FAILED, CANCELLED}
    /\ history.analysed[last.job] = 1

(***************************************************************************)
(* Two processes in the same step.                                         *)
(***************************************************************************)
\* Process s has passed the precondition of step k and has not yet
\* committed the transition that follows the body.
InBody(s, k) ==
    /\ engines[s].step = k
    /\ engines[s].pc \in {"body", "start", "begin", "analysing"}

\* C35: when two processes run the same work instance, the body of a step
\* is executed by at most one of them: they never both pass the precondition
\* of the same step and run its body.
C35_OneProcessPerStep ==
    \A k \in 1..Len(StepOrder) :
        \A s, t \in Procs : InBody(s, k) /\ InBody(t, k) => s = t

\* One process is in the body of a step and the other is about to test the
\* precondition of the same step.
C35_Witness ==
    \E s, t \in Procs :
        /\ s # t
        /\ engines[s].pc \in {"body", "analysing"}
        /\ engines[t].pc = "check"
        /\ engines[t].step = engines[s].step

(***************************************************************************)
(* A broker pass over a collection whose job has ended.                    *)
(***************************************************************************)
\* C36: a call of request_work in which a collection that was found has a
\* job of the broker's kind in an end state still returns its count, and
\* every other collection found for which add_work inserts a job has a new
\* job after the call.
C36_PassSurvivesEndedJob ==
    [][(/\ last'.op = "request_work"
        /\ \E p \in FoundPaths(last'.expos, last'.found) :
              add_work(jobs, last'.work_type, p) = "raise") =>
          /\ last'.err = "none"
          /\ last'.ret = Len(jobs') - Len(jobs)
          /\ \A p \in FoundPaths(last'.expos, last'.found) :
                add_work(jobs, last'.work_type, p) = "insert" =>
                    \E j \in (Len(jobs) + 1)..Len(jobs') :
                        jobs'[j].input_path = p]_vars

\* request_work was called when a collection that is found had a job in an
\* end state.
C36_Witness ==
    /\ last.op = "request_work"
    /\ last.err = "AnalysisError"
    /\ \E j \in JobIds :
          /\ jobs[j].work_type = last.work_type
          /\ jobs[j].input_path \in FoundPaths(last.expos, last.found)
          /\ jobs[j].state \in end_states(last.work_type)

(***************************************************************************)
(* A broker pass interrupted between two commits.                          *)
(***************************************************************************)
\* C37: in every persisted state of the job store, also when a broker pass
\* was interrupted between two of its commits, every job the broker inserted
\* has an ONTMeta row.
C37_EveryJobHasMetadata ==
    \A j \in JobIds : MetaOf(ontmeta, j) # {}

\* A pass has returned after an earlier pass was interrupted, and a job is
\* still without an ONTMeta row.
C37_Witness ==
    /\ last.op = "request_work"
    /\ last.err = "none"
    /\ \E j \in JobIds :
          /\ MetaOf(ontmeta, j) = {}
          /\ jobs[j].work_type = last.work_type
          /\ jobs[j].input_path \in FoundPaths(last.expos, last.found)

(***************************************************************************)
(* The existence of an item.                                               *)
(***************************************************************************)
\* C38: exists() returns False exactly when the listing fails with the code
\* -310000, returns True only when the listing succeeded, and a failure
\* with any other code is raised to the caller.
C38_ExistsReportsOnlyListedItems ==
    rods.op = "exists" =>
        /\ rods.ret = <<FALSE>> <=>
              /\ rods.answer.err = "RodsError"
              /\ rods.answer.code = USER_FILE_DOES_NOT_EXIST
        /\ rods.ret = <<TRUE>> => rods.answer = Listed
        /\ (/\ rods.answer.err = "RodsError"
            /\ rods.answer.code # USER_FILE_DOES_NOT_EXIST) =>
              rods.err = "RodsError"

\* exists() was called and the listing failed with another code than
\* -310000.
C38_Witness ==
    /\ rods.op = "exists"
    /\ rods.answer.err = "RodsError"
    /\ rods.answer.code = CAT_NO_ACCESS_PERMISSION

(***************************************************************************)
(* The order of the tags.                                                  *)
(***************************************************************************)
Reverse(l) == [i \in 1..Len(l) |-> l[Len(l) + 1 - i]]

\* C39: `<` on tags is a strict total order consistent with the equality of
\* tags: of a < b, a == b and b < a exactly one holds, `<` is transitive,
\* and a list sorts to the same sequence whatever the order of its
\* elements.
C39_StrictTotalOrder ==
    /\ \A i, j \in 1..Len(avus.list) :
          LET a == avus.list[i]
              b == avus.list[j]
          IN  /\ lt(a, b) \/ eq(a, b) \/ lt(b, a)
              /\ ~(lt(a, b) /\ eq(a, b))
              /\ ~(lt(a, b) /\ lt(b, a))
              /\ \A c \in AVUs \cup QualifiedAVUs :
                    lt(a, b) /\ lt(b, c) => lt(a, c)
    /\ avus.done =>
          LET other == sorted(Reverse(avus.list))
          IN  \A i \in 1..Len(avus.ret) : eq(avus.ret[i], other[i])

\* Two tags with the same attribute string, value and units, one with a
\* namespace and one whose attribute holds the namespace, were sorted.
C39_Witness ==
    /\ avus.done
    /\ Len(avus.list) = 2
    /\ avus.list[1].namespace # avus.list[2].namespace
    /\ eq(avus.list[1], avus.list[2])

====
